---- MODULE Spec2Model ----
(***************************************************************************)
(* HTJ2K transcoding pipeline of htj2k/compression.py: the HTJ2K object,   *)
(* the files it reads and writes, the process-wide precision-warning       *)
(* global, and the two external OpenJPH tools seen through the wrapper.    *)
(***************************************************************************)
EXTENDS Integers, Sequences, FiniteSets, TLC

VARIABLES
    fs,                 \* the file system: path -> file content (a path is present iff the file exists)
    obj,                \* the attribute dictionary of the HTJ2K object (attribute -> value)
    PRECISION_WARNING,  \* the module global read by _compress: "unbound", "false" or "true"
    warnings,           \* number of precision warnings emitted so far
    temps,              \* temporary files that still exist
    cwd,                \* the working directory of the process
    call                \* what the last call did (its inputs, its outcome, what reached the tools)

vars == <<fs, obj, PRECISION_WARNING, warnings, temps, cwd, call>>

\* ---------------------------------------------------------------- bounds
\* longest pixel buffer
MaxPix == 2
\* size of the write buffer of a file opened with default buffering,
\* scaled down from io.DEFAULT_BUFFER_SIZE
BufferSize == 5
\* largest number of resolutions a skip_res argument names
MaxSkip == 2
\* longest skip_res list
MaxSkipLen == 3

\* ------------------------------------------------------- program constants
U16Max == 65535
U8Max == 255

HTJ2K_TRANSFER_SYNTAX_LIST_CODES ==
    {"1.2.840.10008.1.2.4.201", "1.2.840.10008.1.2.4.202", "1.2.840.10008.1.2.4.203"}

ImplicitVRLittleEndian == "1.2.840.10008.1.2"
ExplicitVRLittleEndian == "1.2.840.10008.1.2.1"

\* ------------------------------------------------------------ sequences
Range(s) == {s[i] : i \in 1..Len(s)}

SeqsUpTo(S, n) == UNION {[1..k -> S] : k \in 1..n}

np_min(s) == CHOOSE m \in Range(s) : \A x \in Range(s) : m <= x
np_max(s) == CHOOSE m \in Range(s) : \A x \in Range(s) : x <= m

RECURSIVE Flatten(_)
Flatten(ss) == IF ss = <<>> THEN <<>> ELSE Head(ss) \o Flatten(Tail(ss))

\* ------------------------------------------------------------ numpy arrays
\* An array is [dtype, data]; data is the flat list of samples.
NoArray == [dtype |-> "none", data |-> <<>>]

ItemSize(dtype) ==
    CASE dtype = "uint8" -> 1
      [] dtype = "uint16" -> 2
      [] dtype = "int16" -> 2
      [] OTHER -> 4

\* ndarray.astype to an unsigned type: an integer cast keeps the low bits
astype(img, dtype) ==
    [dtype |-> dtype,
     data |-> [i \in 1..Len(img.data) |->
                 IF dtype = "uint8" THEN img.data[i] % (U8Max + 1)
                                    ELSE img.data[i] % (U16Max + 1)]]

\* ndarray.tobytes: little-endian, ItemSize bytes per sample, two's complement
SampleBytes(v, size) ==
    IF size = 1 THEN <<v % 256>>
    ELSE IF size = 2 THEN <<v % 256, (v % 65536) \div 256>>
    ELSE <<v % 256, (v \div 256) % 256, (v \div 65536) % 256, (v \div 16777216) % 256>>

tobytes(img) == Flatten([i \in 1..Len(img.data) |-> SampleBytes(img.data[i], ItemSize(img.dtype))])

\* cv2.imwrite of a uint8 or uint16 array to a .pgm file, and cv2.imread of it
\* with IMREAD_UNCHANGED: the raster keeps the sample width
NoPgm == [depth |-> 0, samples |-> <<>>]
imwrite(img) == [depth |-> 8 * ItemSize(img.dtype), samples |-> img.data]
imread(pgm) == [dtype |-> IF pgm.depth = 8 THEN "uint8" ELSE "uint16", data |-> pgm.samples]

\* ------------------------------------------------------------- DICOM files
\* PixelData is either native bytes (raw) or an encapsulated sequence: a
\* Basic Offset Table (bot) and the fragments (frags).
Native(bytes) == [encap |-> FALSE, raw |-> bytes, bot |-> <<>>, frags |-> <<>>]
Encapsulated(bot, frags) == [encap |-> TRUE, raw |-> <<>>, bot |-> bot, frags |-> frags]

RECURSIVE ItemsLen(_)
ItemsLen(frags) == IF frags = <<>> THEN 0 ELSE 8 + Len(Head(frags)) + ItemsLen(Tail(frags))

\* len(dicom.PixelData)
PixelDataLen(pd) == IF pd.encap THEN 8 + 4 * Len(pd.bot) + ItemsLen(pd.frags) ELSE Len(pd.raw)

\* dicom.pixel_array of a native dataset: BitsAllocated and PixelRepresentation
\* give the dtype, the bytes are little-endian
PixelDtype(d) ==
    IF d.BitsAllocated = 8 THEN "uint8"
    ELSE IF d.PixelRepresentation = 1 THEN "int16" ELSE "uint16"

pixel_array(d) ==
    LET raw == d.PixelData.raw
        dt == PixelDtype(d)
        n == Len(raw) \div ItemSize(dt)
        u(i) == raw[2 * i - 1] + 256 * raw[2 * i]
    IN  [dtype |-> dt,
         data |-> [i \in 1..n |->
                     IF dt = "uint8" THEN raw[i]
                     ELSE IF dt = "int16" /\ u(i) >= 32768 THEN u(i) - 65536
                     ELSE u(i)]]

\* a native DICOM file holding the array img
NativeDicom(img) ==
    [TransferSyntaxUID |-> ExplicitVRLittleEndian,
     BitsAllocated |-> 8 * ItemSize(img.dtype),
     PixelRepresentation |-> IF img.dtype = "int16" THEN 1 ELSE 0,
     PixelData |-> Native(tobytes(img))]

\* pydicom.encaps.encapsulate(frames): a Basic Offset Table with one offset per
\* frame, then one fragment per frame; a fragment of odd length is padded with
\* a zero byte, as DICOM items have even length
PadEven(bytes) == IF Len(bytes) % 2 = 1 THEN bytes \o <<0>> ELSE bytes

RECURSIVE Offsets(_, _)
Offsets(frames, at) ==
    IF frames = <<>> THEN <<>>
    ELSE <<at>> \o Offsets(Tail(frames), at + 8 + Len(PadEven(Head(frames))))

encapsulate(frame_data) ==
    Encapsulated(Offsets(frame_data, 0), [i \in 1..Len(frame_data) |-> PadEven(frame_data[i])])

\* pydicom.encaps.decode_data_sequence(PixelData): the fragments after the
\* Basic Offset Table, in order
decode_data_sequence(pd) == pd.frags

\* ---------------------------------------------------------- external codec
\* ojph_compress and ojph_expand are black boxes. The stand-in codestream is
\* a header (reversible flag, sample depth, sample count), the samples
\* big-endian, and an end-of-codestream byte; the irreversible path drops the
\* low bit of every sample. Bytes after the end marker are ignored.
EndMarker == <<217>>

PgmBytes(pgm) ==
    Flatten([i \in 1..Len(pgm.samples) |->
               IF pgm.depth = 8 THEN <<pgm.samples[i]>>
               ELSE <<pgm.samples[i] \div 256, pgm.samples[i] % 256>>])

Quantize(pgm) == [pgm EXCEPT !.samples = [i \in 1..Len(pgm.samples) |-> pgm.samples[i] - (pgm.samples[i] % 2)]]

ojph_compress(pgm, reversible) ==
    <<IF reversible THEN 1 ELSE 0, pgm.depth, Len(pgm.samples)>>
        \o PgmBytes(IF reversible THEN pgm ELSE Quantize(pgm)) \o EndMarker

ValidCodestream(cs) ==
    /\ Len(cs) >= 4
    /\ cs[1] \in {0, 1}
    /\ cs[2] \in {8, 16}
    /\ Len(cs) >= 4 + cs[3] * (cs[2] \div 8)
    /\ <<cs[4 + cs[3] * (cs[2] \div 8)]>> = EndMarker

ojph_expand(cs) ==
    [depth |-> cs[2],
     samples |-> [i \in 1..cs[3] |->
                    IF cs[2] = 8 THEN cs[3 + i]
                    ELSE 256 * cs[3 + 2 * i - 1] + cs[3 + 2 * i]]]

\* ------------------------------------------------------------- HTJ2KBase
\* the directory the caller works in, and the directory of compression.py,
\* which holds the two tools
CallerDir == "work"
ModuleDir == "htj2k"

\* a keyword argument of HTJ2KBase.compress, or its default
Arg(params, key, default) == IF key \in DOMAIN params THEN params[key] ELSE default

\* __format_args of one {x,y} pair
format_args(x) == "{" \o ToString(x[1]) \o "," \o ToString(x[2]) \o "}"

lower(b) == IF b THEN "true" ELSE "false"

\* "reversible == True" and "reversible == False" as Python evaluates them:
\* the integers 1 and 0 compare equal to True and False, nothing else does
py_eq(x, b) == ToString(x) \in (IF b THEN {"TRUE", "1"} ELSE {"FALSE", "0"})

\* the else branch of the reversible test raises
InvalidReversible(params) ==
    LET reversible == Arg(params, "reversible", FALSE)
    IN  ~py_eq(reversible, TRUE) /\ ~py_eq(reversible, FALSE)

\* an argument list that carries the quantization step whatever reversible is
CompressArgs_qstep_always(params) ==
    <<"./ojph_compress",
      "-num_decomps", ToString(Arg(params, "num_decomps", 5)),
      "-prog_order", Arg(params, "prog_order", "RPCL"),
      "-block_size", format_args(Arg(params, "block_size", <<64, 64>>)),
      "-tlm_marker", lower(Arg(params, "tlm_marker", FALSE)),
      "-qstep", Arg(params, "qstep", "0.0039"),
      "-reversible", lower(py_eq(Arg(params, "reversible", FALSE), TRUE))>>
    \o (IF "tileparts" \in DOMAIN params THEN <<"-tileparts", params["tileparts"]>> ELSE <<>>)

\* the argument list HTJ2KBase.compress builds for ojph_compress (the two
\* file paths are left out; the input is a .pgm, so no -colour_trans), for
\* a reversible argument that does not raise
CompressArgs(params) ==
    <<"./ojph_compress",
      "-num_decomps", ToString(Arg(params, "num_decomps", 5)),
      "-prog_order", Arg(params, "prog_order", "RPCL"),
      "-block_size", format_args(Arg(params, "block_size", <<64, 64>>)),
      "-tlm_marker", lower(Arg(params, "tlm_marker", FALSE))>>
    \o (IF py_eq(Arg(params, "reversible", FALSE), TRUE)
          THEN <<"-reversible", "true">>
          ELSE <<"-qstep", Arg(params, "qstep", "0.0039"), "-reversible", "false">>)
    \o (IF "tileparts" \in DOMAIN params THEN <<"-tileparts", params["tileparts"]>> ELSE <<>>)

\* The outcomes of running an external tool: it prints its elapsed time
\* ("ok"), it prints nothing on standard output and a diagnostic on standard
\* error ("fail"), or the subprocess cannot be started ("nostart").
ToolOutcomes == {"ok", "fail", "nostart"}

\* HTJ2KBase.compress raising with the (empty) standard output of the tool
\* instead of its standard error
HTJ2KBase_compress_raises_stdout(pgm, params, tool) ==
    LET invalid == InvalidReversible(params)
        good == ~invalid /\ tool = "ok"
    IN  [outcome |-> CASE invalid -> "ValueError"
                       [] tool = "ok" -> "ok"
                       [] tool = "fail" -> "ValueError"
                       [] OTHER -> "OSError",
         message |-> CASE invalid -> "Invalid value!"
                       [] tool = "fail" -> ""
                       [] OTHER -> "",
         invoked |-> ~invalid,
         args |-> IF invalid THEN <<>> ELSE CompressArgs(params),
         wrote |-> good,
         codestream |-> IF good
                        THEN ojph_compress(pgm, py_eq(Arg(params, "reversible", FALSE), TRUE))
                        ELSE <<>>,
         cwd |-> IF ~invalid /\ tool = "nostart" THEN ModuleDir ELSE cwd]

\* HTJ2KBase.compress(input_path, output_path, **params): what it returns or
\* raises, the codestream the tool wrote to output_path, and the working
\* directory the call leaves behind (the chdir back follows subprocess.run
\* and is skipped when that raises)
HTJ2KBase_compress(pgm, params, tool) ==
    LET invalid == InvalidReversible(params)
        good == ~invalid /\ tool = "ok"
    IN  [outcome |-> CASE invalid -> "ValueError"
                       [] tool = "ok" -> "ok"
                       [] tool = "fail" -> "ValueError"
                       [] OTHER -> "OSError",
         message |-> CASE invalid -> "Invalid value!"
                       [] tool = "fail" -> "stderr"
                       [] OTHER -> "",
         invoked |-> ~invalid,
         args |-> IF invalid THEN <<>> ELSE CompressArgs(params),
         wrote |-> good,
         codestream |-> IF good
                        THEN ojph_compress(pgm, py_eq(Arg(params, "reversible", FALSE), TRUE))
                        ELSE <<>>,
         cwd |-> IF ~invalid /\ tool = "nostart" THEN ModuleDir ELSE cwd]

\* a skip_res argument of HTJ2KBase.decompress: None (the default), one
\* integer, or a list of integers
NoSkip == [kind |-> "None", n |-> 0, seq |-> <<>>]
SkipInt(n) == [kind |-> "int", n |-> n, seq |-> <<>>]
SkipList(seq) == [kind |-> "list", n |-> 0, seq |-> seq]

\* "if skip_res:", the truth value Python gives the argument
truthy(skip_res) ==
    CASE skip_res.kind = "int" -> skip_res.n # 0
      [] skip_res.kind = "list" -> skip_res.seq # <<>>
      [] OTHER -> FALSE

\* the length test on a list raises
InvalidSkip(skip_res) ==
    truthy(skip_res) /\ skip_res.kind = "list" /\ Len(skip_res.seq) # 2

\* the argument list HTJ2KBase.decompress builds for ojph_expand (the two
\* file paths are left out). The list branch appends nothing: its append
\* stands after the raise, inside the length test.
ExpandArgs(skip_res, resilient) ==
    <<"./ojph_expand", "-resilient", lower(resilient)>>
    \o (IF truthy(skip_res) /\ skip_res.kind # "list"
          THEN <<"-skip_res", ToString(skip_res.n)>>
          ELSE <<>>)

\* the number of resolutions args tells ojph_expand to skip
SkippedResolutions(args) ==
    IF \E i \in 1..Len(args) : args[i] = "-skip_res" THEN
        LET i == CHOOSE j \in 1..Len(args) : args[j] = "-skip_res"
        IN  CHOOSE n \in 0..MaxSkip : ToString(n) = args[i + 1]
    ELSE 0

\* a raster reconstructed with n resolutions skipped: every second sample,
\* n times over
RECURSIVE Halve(_, _)
Halve(samples, n) ==
    IF n = 0 THEN samples
    ELSE Halve([i \in 1..((Len(samples) + 1) \div 2) |-> samples[2 * i - 1]], n - 1)

\* HTJ2KBase.decompress(input_path, output_path, skip_res, resilient):
\* content is what the file at input_path holds when the tool runs; cwd is
\* the working directory the call leaves behind
HTJ2KBase_decompress(content, skip_res, resilient, tool) ==
    LET invalid == InvalidSkip(skip_res)
        args == ExpandArgs(skip_res, resilient)
        good == ~invalid /\ tool = "ok" /\ ValidCodestream(content)
        full == ojph_expand(content)
    IN  [outcome |-> CASE invalid -> "ValueError"
                       [] good -> "ok"
                       [] tool = "nostart" -> "OSError"
                       [] OTHER -> "ValueError",
         message |-> CASE invalid -> "Invalid value!"
                       [] good \/ tool = "nostart" -> ""
                       [] OTHER -> "stderr",
         invoked |-> ~invalid,
         args |-> IF invalid THEN <<>> ELSE args,
         pgm |-> IF good
                 THEN [depth |-> full.depth,
                       samples |-> Halve(full.samples, SkippedResolutions(args))]
                 ELSE NoPgm,
         cwd |-> IF ~invalid /\ tool = "nostart" THEN ModuleDir ELSE cwd]

\* ------------------------------------------------------------------ HTJ2K
\* tempfile.NamedTemporaryFile as a context manager: the file exists inside
\* the with block and is deleted when the block is left, by return or by
\* exception
LeaveWith(existing, name) == existing \ {name}

\* _compress that tests strict only inside the with block, after the cast and
\* after the raster has been written
_compress_strict_late(img, encoder_params, strict, flag, tool) ==
    LET min_val == np_min(img.data)
        max_val == np_max(img.data)
        exceeds == min_val < 0 \/ max_val > U16Max
        cast == IF max_val > U8Max THEN astype(img, "uint16") ELSE astype(img, "uint8")
    IN  [outcome |-> IF exceeds /\ strict THEN "PrecisionError" ELSE "ValueError",
         message |-> "", flag |-> flag, warned |-> FALSE,
         buffer |-> img, cast |-> TRUE, handed |-> imwrite(cast),
         created |-> {"encode_c.pgm"}, left |-> {},
         invoked |-> FALSE, args |-> <<>>, wrote |-> FALSE, codestream |-> <<>>, cwd |-> cwd]

\* HTJ2K._compress(filename, img, encoder_params, strict) with the global in
\* state flag and the encoder behaving as tool. handed is the raster written
\* for the encoder; left is the set of its temporary files that still exist.
_compress(img, encoder_params, strict, flag, tool) ==
    LET min_val == np_min(img.data)
        max_val == np_max(img.data)
        exceeds == min_val < 0 \/ max_val > U16Max
        cast == IF max_val > U8Max THEN astype(img, "uint16") ELSE astype(img, "uint8")
        base == HTJ2KBase_compress(imwrite(cast), encoder_params, tool)
        stop(outcome) ==
            [outcome |-> outcome, message |-> "", flag |-> flag, warned |-> FALSE,
             buffer |-> img, cast |-> FALSE, handed |-> NoPgm, created |-> {}, left |-> {},
             invoked |-> FALSE, args |-> <<>>, wrote |-> FALSE, codestream |-> <<>>, cwd |-> cwd]
    IN  IF exceeds /\ strict THEN stop("PrecisionError")
        ELSE IF exceeds /\ flag = "unbound" THEN stop("NameError")
        ELSE [outcome |-> base.outcome,
              message |-> base.message,
              flag |-> IF exceeds THEN "true" ELSE flag,
              warned |-> exceeds /\ flag = "false",
              buffer |-> img,
              cast |-> TRUE,
              handed |-> imwrite(cast),
              created |-> {"encode_c.pgm"},
              left |-> LeaveWith({"encode_c.pgm"}, "encode_c.pgm"),
              invoked |-> base.invoked,
              args |-> base.args,
              wrote |-> base.wrote,
              codestream |-> base.codestream,
              cwd |-> base.cwd]

\* HTJ2K._decompress(filename): content is what the file holds on disk
_decompress(content, tool) ==
    LET base == HTJ2KBase_decompress(content, NoSkip, FALSE, tool)
    IN  [outcome |-> base.outcome,
         message |-> base.message,
         cwd |-> base.cwd,
         img |-> IF base.outcome = "ok" THEN imread(base.pgm) ELSE NoArray,
         created |-> {"encode_d.pgm"},
         left |-> LeaveWith({"encode_d.pgm"}, "encode_d.pgm")]

\* What a file opened with default buffering holds on disk after one write
\* and no flush: a write that fits the buffer stays in the buffer, a larger
\* one goes straight to the file
OnDiskAfterWrite(data) == IF Len(data) <= BufferSize THEN <<>> ELSE data

\* the names an HTJ2K object is constructed for
ObjNames == {"X", "X_comp", "M", "A"}

\* path.endswith(".dcm")
endswith_dcm(path) == path \in {n \o ".dcm" : n \in ObjNames}

\* a file of the data directory under base_path. Paths are written relative
\* to the data directory of CallerDir, where the input files are.
InData(base_path, file) ==
    IF base_path = CallerDir THEN file ELSE base_path \o "/data/" \o file

\* HTJ2K.__init__(path): name is the file name of path up to its first dot,
\* base_path is the working directory at construction
HTJ2K(name, ext) ==
    [path |-> name \o "." \o ext,
     name |-> name,
     encoded_jph_path |-> InData(cwd, "encoded_" \o name \o ".jph"),
     compressed_dicom_path |-> InData(cwd, name \o "_comp.dcm"),
     decompressed_dicom_path |-> InData(cwd, name \o "_decomp.dcm"),
     verbose |-> FALSE]

\* the profile names compress is called with ("HTJ2K" is the default)
Tsyntaxes == {"RPCL", "Lossless", "Lossy", "HTJ2K"}

\* encoder_params that updates the dictionary the object already holds
\* instead of replacing it
UpdatedParams(old, tsyntax) ==
    (IF tsyntax = "RPCL"
     THEN [num_decomps |-> 5, reversible |-> TRUE, tileparts |-> "R", tlm_marker |-> TRUE,
           prog_order |-> "RPCL", block_size |-> <<32, 32>>]
     ELSE IF tsyntax = "Lossless"
     THEN [num_decomps |-> 5, reversible |-> TRUE, tileparts |-> "R", tlm_marker |-> TRUE,
           prog_order |-> "RPCL", block_size |-> <<64, 64>>]
     ELSE [num_decomps |-> 5, reversible |-> FALSE, qstep |-> "0.0039"]) @@ old

\* self.encoder_params as compress sets it for tsyntax; old is the dictionary
\* the object held before the call, which the assignment replaces
encoder_params(old, tsyntax) ==
    IF tsyntax = "RPCL"
    THEN [num_decomps |-> 5, reversible |-> TRUE, tileparts |-> "R", tlm_marker |-> TRUE,
          prog_order |-> "RPCL", block_size |-> <<32, 32>>]
    ELSE IF tsyntax = "Lossless"
    THEN [num_decomps |-> 5, reversible |-> TRUE, tileparts |-> "R", tlm_marker |-> TRUE,
          prog_order |-> "RPCL", block_size |-> <<64, 64>>]
    ELSE [num_decomps |-> 5, reversible |-> FALSE, qstep |-> "0.0039"]

\* self.transfer_syntax as compress sets it for tsyntax
transfer_syntax(tsyntax) ==
    IF tsyntax = "RPCL" THEN "1.2.840.10008.1.2.4.202"
    ELSE IF tsyntax = "Lossless" THEN "1.2.840.10008.1.2.4.201"
    ELSE "1.2.840.10008.1.2.4.203"

NoParams == [k \in {} |-> 0]

\* the record of a call, before the call fills it in
NoCall ==
    [op |-> "none", outcome |-> "none", message |-> "", tsyntax |-> "", strict |-> FALSE,
     tool |-> "none", img |-> NoArray, buffer |-> NoArray,
     warned |-> FALSE, cast |-> FALSE, handed |-> NoPgm, created |-> {},
     invoked |-> FALSE, args |-> <<>>, decapsulated |-> FALSE, frags |-> <<>>,
     decInvoked |-> FALSE, written |-> <<>>, decInput |-> <<>>, saved |-> FALSE,
     kwargs |-> {}, reversible |-> "", skip_res |-> NoSkip, resilient |-> FALSE,
     decArgs |-> <<>>, cwd0 |-> ""]

\* the fields of the call record that a run of _compress fills in
CompressTrace(r) ==
    [outcome |-> r.outcome, message |-> r.message, buffer |-> r.buffer, warned |-> r.warned,
     cast |-> r.cast, handed |-> r.handed, created |-> r.created, invoked |-> r.invoked,
     args |-> r.args]

\* ---------------------------------------------------------------- actions
\* HTJ2K(path): a new object for an existing file
init(name, ext) ==
    /\ name \o "." \o ext \in DOMAIN fs
    /\ obj' = HTJ2K(name, ext)
    /\ call' = [op |-> "init"] @@ NoCall
    /\ UNCHANGED <<fs, PRECISION_WARNING, warnings, temps, cwd>>

\* frame_data filled by reading the codestream file in two halves
frame_data_in_chunks(data) ==
    <<SubSeq(data, 1, Len(data) \div 2), SubSeq(data, Len(data) \div 2 + 1, Len(data))>>

\* frame_data of compress: the whole codestream file, read at once, as the
\* only frame
frame_data(data) == <<data>>

\* HTJ2K.compress(tsyntax), the encoder behaving as tool
compress(tsyntax, tool) ==
    LET dcm == endswith_dcm(obj.path)
        dicom == fs[obj.path]
        unreadable == dcm /\ dicom.PixelData.encap
        img == IF dcm THEN pixel_array(dicom) ELSE fs[obj.path]
        o1 == IF dcm THEN ("original_size" :> PixelDataLen(dicom.PixelData)) @@ obj ELSE obj
        before == IF "encoder_params" \in DOMAIN obj THEN obj.encoder_params ELSE NoParams
        o2 == [raw_arr |-> img,
               encoder_params |-> encoder_params(before, tsyntax),
               transfer_syntax |-> transfer_syntax(tsyntax)] @@ o1
        r == _compress(img, o2.encoder_params, FALSE, PRECISION_WARNING, tool)
        fs1 == IF r.wrote THEN (obj.encoded_jph_path :> r.codestream) @@ fs ELSE fs
        data == fs1[obj.encoded_jph_path]
        encapsulated_data == encapsulate(frame_data(data))
        o3 == ("compressed_size" :> PixelDataLen(encapsulated_data)) @@ o2
        saved == [dicom EXCEPT !.PixelData = encapsulated_data,
                               !.TransferSyntaxUID = o2.transfer_syntax]
        o4 == ("compression_ratio" :> <<o3.original_size, o3.compressed_size>>) @@ o3
        this == [op |-> "compress", tsyntax |-> tsyntax, tool |-> tool]
    IN  IF unreadable
        THEN /\ obj' = o1
             /\ call' = this @@ [outcome |-> "PixelArrayError"] @@ NoCall
             /\ UNCHANGED <<fs, PRECISION_WARNING, warnings, temps, cwd>>
        ELSE /\ PRECISION_WARNING' = r.flag
             /\ cwd' = r.cwd
             /\ warnings' = IF r.warned THEN warnings + 1 ELSE warnings
             /\ temps' = temps \cup r.left
             /\ IF r.outcome # "ok"
                THEN /\ obj' = o2
                     /\ fs' = fs1
                     /\ call' = this @@ [img |-> img] @@ CompressTrace(r) @@ NoCall
                ELSE IF ~dcm
                THEN /\ obj' = o3
                     /\ fs' = fs1
                     /\ call' = this @@ [img |-> img, outcome |-> "UnboundLocalError"]
                                     @@ CompressTrace(r) @@ NoCall
                ELSE /\ obj' = o4
                     /\ fs' = (obj.compressed_dicom_path :> saved) @@ fs1
                     /\ call' = this @@ [img |-> img, saved |-> TRUE] @@ CompressTrace(r) @@ NoCall

\* HTJ2K._compress(obj.encoded_jph_path, img, encoder_params, strict) called
\* on its own, the encoder behaving as tool
direct_compress(img, tsyntax, strict, tool) ==
    LET r == _compress(img, encoder_params(NoParams, tsyntax), strict, PRECISION_WARNING, tool)
    IN  /\ PRECISION_WARNING' = r.flag
        /\ warnings' = IF r.warned THEN warnings + 1 ELSE warnings
        /\ temps' = temps \cup r.left
        /\ cwd' = r.cwd
        /\ fs' = IF r.wrote THEN (obj.encoded_jph_path :> r.codestream) @@ fs ELSE fs
        /\ call' = [op |-> "_compress", tsyntax |-> tsyntax, strict |-> strict, tool |-> tool,
                    img |-> img] @@ CompressTrace(r) @@ NoCall
        /\ UNCHANGED obj

\* decompress with the transfer-syntax test left out
MissingGate(dicom) == FALSE

\* the transfer-syntax test of decompress
Unsupported(dicom) == dicom.TransferSyntaxUID \notin HTJ2K_TRANSFER_SYNTAX_LIST_CODES

\* HTJ2K.decompress(), the decoder behaving as tool
decompress(tool) ==
    LET dcm == endswith_dcm(obj.path)
        dicom == fs[obj.path]
        gate == Unsupported(dicom)
        bin_pix_data == decode_data_sequence(dicom.PixelData)
        ondisk == OnDiskAfterWrite(bin_pix_data[1])
        r == _decompress(ondisk, tool)
        jph == "encode_.jph"
        saved == [dicom EXCEPT !.PixelData = Native(tobytes(r.img)),
                               !.TransferSyntaxUID = ImplicitVRLittleEndian]
        this == [op |-> "decompress", tool |-> tool]
    IN  IF ~dcm
        THEN /\ call' = this @@ [outcome |-> "None"] @@ NoCall
             /\ UNCHANGED <<fs, obj, PRECISION_WARNING, warnings, temps, cwd>>
        ELSE IF gate
        THEN /\ call' = this @@ [outcome |-> "TypeError"] @@ NoCall
             /\ UNCHANGED <<fs, obj, PRECISION_WARNING, warnings, temps, cwd>>
        ELSE IF bin_pix_data = <<>>
        THEN /\ call' = this @@ [outcome |-> "IndexError", decapsulated |-> TRUE,
                                 created |-> {jph}] @@ NoCall
             /\ temps' = temps \cup LeaveWith({jph}, jph)
             /\ UNCHANGED <<fs, obj, PRECISION_WARNING, warnings, cwd>>
        ELSE /\ temps' = temps \cup LeaveWith(r.left \cup {jph}, jph)
             /\ cwd' = r.cwd
             /\ call' = this @@ [outcome |-> r.outcome, message |-> r.message,
                                 decapsulated |-> TRUE, frags |-> bin_pix_data,
                                 created |-> r.created \cup {jph},
                                 decInvoked |-> TRUE, written |-> bin_pix_data[1],
                                 decInput |-> ondisk,
                                 saved |-> r.outcome = "ok"] @@ NoCall
             /\ IF r.outcome = "ok"
                THEN /\ obj' = ("raw_arr" :> r.img) @@ obj
                     /\ fs' = (obj.decompressed_dicom_path :> saved) @@ fs
                ELSE UNCHANGED <<fs, obj>>
             /\ UNCHANGED <<PRECISION_WARNING, warnings>>

\* HTJ2KBase.compress(input_path, "out.jph", **params) called on its own:
\* pgm is the raster the file at input_path holds
base_compress(pgm, params, tool) ==
    LET r == HTJ2KBase_compress(pgm, params, tool)
    IN  /\ cwd' = r.cwd
        /\ fs' = IF r.wrote THEN ("out.jph" :> r.codestream) @@ fs ELSE fs
        /\ call' = [op |-> "HTJ2KBase.compress", tool |-> tool, outcome |-> r.outcome,
                    message |-> r.message, handed |-> pgm, invoked |-> r.invoked,
                    args |-> r.args, kwargs |-> DOMAIN params,
                    reversible |-> IF "reversible" \in DOMAIN params
                                   THEN ToString(params["reversible"]) ELSE "",
                    cwd0 |-> cwd] @@ NoCall
        /\ UNCHANGED <<obj, PRECISION_WARNING, warnings, temps>>

\* HTJ2KBase.decompress("out.jph", "decoded.pgm", skip_res, resilient)
\* called on its own; a missing input file is a file the decoder cannot read
base_decompress(skip_res, resilient, tool) ==
    LET input_path == "out.jph"
        content == IF input_path \in DOMAIN fs THEN fs[input_path] ELSE <<>>
        r == HTJ2KBase_decompress(content, skip_res, resilient, tool)
    IN  /\ cwd' = r.cwd
        /\ fs' = IF r.outcome = "ok" THEN ("decoded.pgm" :> r.pgm) @@ fs ELSE fs
        /\ call' = [op |-> "HTJ2KBase.decompress", tool |-> tool, outcome |-> r.outcome,
                    message |-> r.message, skip_res |-> skip_res, resilient |-> resilient,
                    decInvoked |-> r.invoked, decArgs |-> r.args, decInput |-> content,
                    cwd0 |-> cwd] @@ NoCall
        /\ UNCHANGED <<obj, PRECISION_WARNING, warnings, temps>>

\* ------------------------------------------------------------------ inputs
\* the pixel buffers of the source DICOM files
SrcImages ==
    {[dtype |-> "uint8", data |-> d] : d \in SeqsUpTo({7, 200}, MaxPix)}
    \cup {[dtype |-> "uint16", data |-> d] : d \in SeqsUpTo({200, 65535}, MaxPix)}
    \cup {[dtype |-> "int16", data |-> d] : d \in SeqsUpTo({-5, 200}, MaxPix)}

\* the arrays of the .npy files and of direct _compress calls
NpyImages == {[dtype |-> "int32", data |-> d] : d \in SeqsUpTo({-5, 200, 70000}, MaxPix)}

\* fragment sequences of an HTJ2K DICOM file written by another program: the
\* codestream of one image as one fragment, cut in two, or no fragment at all
OtherCodestream == ojph_compress([depth |-> 16, samples |-> <<300, 7>>], TRUE)

FragmentSequences ==
    {<<>>, <<OtherCodestream>>}
    \cup {<<SubSeq(OtherCodestream, 1, i), SubSeq(OtherCodestream, i + 1, Len(OtherCodestream))>> :
            i \in {j \in 1..(Len(OtherCodestream) - 1) : j % 2 = 0}}

OtherDicom(frags) ==
    [TransferSyntaxUID |-> "1.2.840.10008.1.2.4.201",
     BitsAllocated |-> 16,
     PixelRepresentation |-> 0,
     PixelData |-> Encapsulated(<<>>, frags)]

\* One input file exists and an object has been constructed for it.
Init ==
    /\ cwd = CallerDir
    /\ \/ \E img \in SrcImages : fs = ("X.dcm" :> NativeDicom(img)) /\ obj = HTJ2K("X", "dcm")
       \/ \E f \in FragmentSequences : fs = ("M.dcm" :> OtherDicom(f)) /\ obj = HTJ2K("M", "dcm")
       \/ \E img \in NpyImages : fs = ("A.npy" :> img) /\ obj = HTJ2K("A", "npy")
    /\ PRECISION_WARNING = "unbound"
    /\ warnings = 0
    /\ temps = {}
    /\ call = NoCall

DoInit == \E name \in ObjNames, ext \in {"dcm", "npy"} : init(name, ext)
\* the pipeline is driven with tools that can be started; a tool that cannot
\* be started is met in the direct calls below
Started == {"ok", "fail"}

DoCompress == \E tsyntax \in Tsyntaxes, tool \in Started : compress(tsyntax, tool)
DoDecompress == \E tool \in Started : decompress(tool)

\* the rasters and keyword arguments of direct HTJ2KBase.compress calls: qstep
\* left out or given, reversible left out, a boolean, an integer or a string
BasePgms == {imwrite([dtype |-> "uint8", data |-> <<7, 200>>])}

Qsteps == {[k \in {} |-> ""], [qstep |-> "0.01"]}

DoBaseCompress ==
    \E pgm \in BasePgms, q \in Qsteps, tool \in ToolOutcomes :
        \/ base_compress(pgm, q, tool)
        \/ \E reversible \in BOOLEAN : base_compress(pgm, [reversible |-> reversible] @@ q, tool)
        \/ \E reversible \in {0, 1, 2} : base_compress(pgm, [reversible |-> reversible] @@ q, tool)
        \/ \E reversible \in {"yes"} : base_compress(pgm, [reversible |-> reversible] @@ q, tool)

\* the skip_res arguments of direct HTJ2KBase.decompress calls
SkipArgs ==
    {NoSkip}
    \cup {SkipInt(n) : n \in 0..MaxSkip}
    \cup {SkipList(<<>>)}
    \cup {SkipList(seq) : seq \in SeqsUpTo({1, MaxSkip}, MaxSkipLen)}

DoBaseDecompress ==
    \E skip_res \in SkipArgs, resilient \in BOOLEAN, tool \in ToolOutcomes :
        base_decompress(skip_res, resilient, tool)
DoDirectCompress ==
    \E img \in NpyImages, tsyntax \in {"Lossless", "HTJ2K"}, strict \in BOOLEAN, tool \in Started :
        direct_compress(img, tsyntax, strict, tool)

\* the pipeline as its callers drive it: construct, compress, decompress
Next == DoInit \/ DoCompress \/ DoDecompress

Spec == Init /\ [][Next]_vars

\* _compress called on its own, in either mode, on an object constructed for
\* an array file
InitDirect == Init /\ obj.name = "A" /\ fs["A.npy"].data = <<200>>

NextDirect == DoDirectCompress

SpecDirect == InitDirect /\ [][NextDirect]_vars

\* the two wrapper methods of HTJ2KBase called on their own
NextBase == DoInit \/ DoBaseCompress \/ DoBaseDecompress

SpecBase == InitDirect /\ [][NextBase]_vars

\* ------------------------------------------------------------------ claims
InRange(img) == \A i \in 1..Len(img.data) : 0 <= img.data[i] /\ img.data[i] <= 65535

ReversibleUIDs == {"1.2.840.10008.1.2.4.201", "1.2.840.10008.1.2.4.202"}

\* C1: compressing a DICOM file whose samples lie in [0, 65535] under
\* "Lossless" or "RPCL" and decompressing the compressed file, with the codec
\* running normally, succeeds and writes PixelData byte-identical to the
\* source PixelData.
C1_RoundTrip ==
    (/\ call.op = "decompress"
     /\ call.tool = "ok"
     /\ obj.path = "X_comp.dcm"
     /\ fs["X_comp.dcm"].TransferSyntaxUID \in ReversibleUIDs
     /\ InRange(pixel_array(fs["X.dcm"])))
    => /\ call.outcome = "ok"
       /\ fs["X_comp_decomp.dcm"].PixelData = fs["X.dcm"].PixelData

\* the profile table of the specification
C2_Params(tsyntax) ==
    CASE tsyntax = "RPCL" ->
           [num_decomps |-> 5, reversible |-> TRUE, block_size |-> <<32, 32>>, tileparts |-> "R",
            tlm_marker |-> TRUE, prog_order |-> "RPCL"]
      [] tsyntax = "Lossless" ->
           [num_decomps |-> 5, reversible |-> TRUE, block_size |-> <<64, 64>>, tileparts |-> "R",
            tlm_marker |-> TRUE, prog_order |-> "RPCL"]
      [] OTHER -> [num_decomps |-> 5, reversible |-> FALSE, qstep |-> "0.0039"]

C2_UID(tsyntax) ==
    CASE tsyntax = "RPCL" -> "1.2.840.10008.1.2.4.202"
      [] tsyntax = "Lossless" -> "1.2.840.10008.1.2.4.201"
      [] OTHER -> "1.2.840.10008.1.2.4.203"

\* C2: after every compress call that reaches profile selection, whatever
\* calls came before on the object, the object's encoder parameters and
\* transfer syntax are exactly the table's entry for the profile name of this
\* call: nothing more (no key of an earlier call), nothing less.
C2_ProfileTable ==
    (call.op = "compress" /\ call.outcome # "PixelArrayError")
    => /\ obj.encoder_params = C2_Params(call.tsyntax)
       /\ obj.transfer_syntax = C2_UID(call.tsyntax)
       /\ (call.tsyntax \notin {"RPCL", "Lossless"}
             => DOMAIN obj.encoder_params \cap {"tileparts", "tlm_marker"} = {})

\* C2 witness: a non-reversible compress that failed in the encoder, on an
\* object whose earlier compress under a reversible profile succeeded
C2_Witness ==
    /\ call.op = "compress"
    /\ call.tsyntax = "HTJ2K"
    /\ call.outcome = "ValueError"
    /\ "compressed_size" \in DOMAIN obj
    /\ obj.compressed_dicom_path \in DOMAIN fs
    /\ fs[obj.compressed_dicom_path].TransferSyntaxUID = "1.2.840.10008.1.2.4.202"

\* the samples of img saturated to [0, 65535]
Saturated(img) ==
    [i \in 1..Len(img.data) |->
       IF img.data[i] < 0 THEN 0 ELSE IF img.data[i] > 65535 THEN 65535 ELSE img.data[i]]

\* C3: a non-strict _compress call on a buffer with a sample outside
\* [0, 65535] gets as far as handing a raster to the encoder, and every sample
\* of that raster is the input sample saturated to [0, 65535].
C3_Clipping ==
    (call.op = "_compress" /\ ~call.strict /\ ~InRange(call.img))
    => /\ call.outcome \notin {"NameError", "PrecisionError"}
       /\ call.invoked
       /\ call.handed.samples = Saturated(call.img)

\* C4: once a non-strict _compress call has met a buffer with a sample outside
\* [0, 65535], exactly one precision warning has been emitted and the
\* process-wide flag is true.
C4_WarnOnce ==
    (call.op = "_compress" /\ ~call.strict /\ ~InRange(call.img))
    => warnings = 1 /\ PRECISION_WARNING = "true"

\* C5: a strict _compress call on a buffer with a sample outside [0, 65535]
\* fails with the precision error before any cast, leaves the caller's buffer
\* as it was, creates no temporary file and does not invoke the encoder.
C5_StrictFails ==
    (call.op = "_compress" /\ call.strict /\ ~InRange(call.img))
    => /\ call.outcome = "PrecisionError"
       /\ ~call.cast
       /\ call.handed = NoPgm
       /\ call.buffer = call.img
       /\ call.created = {}
       /\ temps = {}
       /\ ~call.invoked

\* C5 witness: a strict call on a buffer holding a sample below 0 and a sample
\* above 65535 has failed
C5_Witness ==
    /\ call.op = "_compress"
    /\ call.strict
    /\ call.img.data = <<-5, 70000>>
    /\ call.outcome = "PrecisionError"

\* C6: decompress on a DICOM file whose TransferSyntaxUID is none of the three
\* HTJ2K UIDs fails with the transfer-syntax error before decapsulation,
\* without a temporary file, without the decoder and without a decompressed
\* DICOM file.
C6_Gate ==
    (/\ call.op = "decompress"
     /\ endswith_dcm(obj.path)
     /\ fs[obj.path].TransferSyntaxUID \notin
            {"1.2.840.10008.1.2.4.201", "1.2.840.10008.1.2.4.202", "1.2.840.10008.1.2.4.203"})
    => /\ call.outcome = "TypeError"
       /\ ~call.decapsulated
       /\ ~call.decInvoked
       /\ call.created = {}
       /\ temps = {}
       /\ ~call.saved
       /\ obj.decompressed_dicom_path \notin DOMAIN fs

\* C6 witness: decompress was called on the uncompressed source file
C6_Witness ==
    /\ call.op = "decompress"
    /\ obj.path = "X.dcm"
    /\ fs["X.dcm"].TransferSyntaxUID = ExplicitVRLittleEndian
    /\ call.outcome = "TypeError"

\* attribute k of the object is what it was before the step
Kept(k) ==
    /\ (k \in DOMAIN obj') = (k \in DOMAIN obj)
    /\ k \in DOMAIN obj => obj'[k] = obj[k]

\* the file at path p is what it was before the step
FileKept(p) ==
    /\ (p \in DOMAIN fs') = (p \in DOMAIN fs)
    /\ p \in DOMAIN fs => fs'[p] = fs[p]

\* C7: a compress call whose encoder fails (nothing on standard output)
\* raises an error carrying the tool's standard-error text, and that step
\* leaves the DICOM file it read as it was (PixelData, TransferSyntaxUID),
\* saves no compressed DICOM file and sets neither compressed_size nor
\* compression_ratio.
C7_NoPartialMutation ==
    [][(call'.op = "compress" /\ call'.invoked /\ call'.tool = "fail")
        => /\ call'.outcome = "ValueError"
           /\ call'.message = "stderr"
           /\ ~call'.saved
           /\ FileKept(obj.path)
           /\ FileKept(obj.compressed_dicom_path)
           /\ Kept("compressed_size")
           /\ Kept("compression_ratio")]_vars

\* C7 witness: the encoder failed in a compress call on an object that holds
\* the compressed_size of an earlier successful call
C7_Witness ==
    /\ call.op = "compress"
    /\ call.invoked
    /\ call.tool = "fail"
    /\ call.outcome = "ValueError"
    /\ "compressed_size" \in DOMAIN obj

\* C8: after compress or decompress, however it ended, none of its temporary
\* files exists and the codestream file the encoder wrote does not exist
\* either.
C8_ScratchCleanup ==
    call.op \in {"compress", "decompress"}
    => temps = {} /\ obj.encoded_jph_path \notin DOMAIN fs

\* C9 as stated: after a successful compress the saved PixelData has exactly
\* one fragment, byte for byte the codestream file, and the saved
\* TransferSyntaxUID is the one paired with the profile.
C9_FragmentIsCodestream ==
    (call.op = "compress" /\ call.outcome = "ok")
    => LET saved == fs[obj.compressed_dicom_path]
           codestream == fs[obj.encoded_jph_path]
       IN  /\ saved.PixelData.encap
           /\ Len(saved.PixelData.frags) = 1
           /\ saved.PixelData.frags[1] = codestream
           /\ ItemsLen(saved.PixelData.frags) - 8 = Len(codestream)
           /\ saved.TransferSyntaxUID = C2_UID(call.tsyntax)

\* C9 as amended: after a successful compress the saved PixelData has exactly
\* one fragment, which is the codestream file followed by one zero byte when
\* the codestream length is odd (its length is the codestream length rounded
\* up to even), and the saved TransferSyntaxUID is the one paired with the
\* profile.
C9_FragmentIsPaddedCodestream ==
    (call.op = "compress" /\ call.outcome = "ok")
    => LET saved == fs[obj.compressed_dicom_path]
           codestream == fs[obj.encoded_jph_path]
           fragment == saved.PixelData.frags[1]
       IN  /\ saved.PixelData.encap
           /\ Len(saved.PixelData.frags) = 1
           /\ Len(fragment) = Len(codestream) + (Len(codestream) % 2)
           /\ SubSeq(fragment, 1, Len(codestream)) = codestream
           /\ Len(fragment) > Len(codestream) => fragment[Len(fragment)] = 0
           /\ saved.TransferSyntaxUID = C2_UID(call.tsyntax)

\* C9 witness: a successful compress whose codestream has odd length
C9_Witness ==
    /\ call.op = "compress"
    /\ call.outcome = "ok"
    /\ Len(fs[obj.encoded_jph_path]) % 2 = 1
    /\ Len(fs[obj.compressed_dicom_path].PixelData.frags) = 1

\* C10: the codestream decompress writes for the decoder is the concatenation
\* of all fragments of the source PixelData, in order.
C10_AllFragments ==
    (call.op = "decompress" /\ call.decInvoked)
    => call.written = Flatten(call.frags)

\* C11: a decompress call, with the decoder running normally, on the object
\* whose compress of an uncompressed DICOM file has succeeded passes the
\* transfer-syntax gate, decapsulates the PixelData of the compressed file
\* that compress saved and returns a decode time, and compression_ratio is
\* still the original byte length over the encapsulated byte length.
C11_CompressThenDecompress ==
    (/\ call.op = "decompress"
     /\ call.tool = "ok"
     /\ obj.path = "X.dcm"
     /\ "compression_ratio" \in DOMAIN obj)
    => /\ call.outcome # "TypeError"
       /\ call.decapsulated
       /\ call.frags = fs[obj.compressed_dicom_path].PixelData.frags
       /\ call.outcome = "ok"
       /\ obj.compression_ratio =
            <<PixelDataLen(fs["X.dcm"].PixelData),
              PixelDataLen(fs[obj.compressed_dicom_path].PixelData)>>

\* args holds the option a followed by the value b
HasArg(args, a, b) == \E i \in 1..(Len(args) - 1) : args[i] = a /\ args[i + 1] = b

\* args holds the option a
HasOption(args, a) == \E i \in 1..Len(args) : args[i] = a

\* C12: HTJ2KBase.decompress called with skip_res a positive integer n runs
\* the decoder with "-skip_res n"; called with a two-element list (x, y) it
\* runs the decoder with "-skip_res x,y"; called with a list whose length is
\* not 2 it fails with the invalid-parameter error and does not run the
\* decoder.
C12_SkipRes ==
    call.op = "HTJ2KBase.decompress"
    => LET skip_res == call.skip_res
       IN  /\ (skip_res.kind = "int" /\ skip_res.n > 0)
                => /\ call.decInvoked
                   /\ HasArg(call.decArgs, "-skip_res", ToString(skip_res.n))
           /\ (skip_res.kind = "list" /\ Len(skip_res.seq) = 2)
                => /\ call.decInvoked
                   /\ HasArg(call.decArgs, "-skip_res",
                             ToString(skip_res.seq[1]) \o "," \o ToString(skip_res.seq[2]))
           /\ (skip_res.kind = "list" /\ Len(skip_res.seq) # 2)
                => /\ call.outcome = "ValueError"
                   /\ call.message = "Invalid value!"
                   /\ ~call.decInvoked

\* C13 as stated: in every HTJ2KBase.compress call the encoder's argument
\* list holds "-qstep" only together with "-reversible false"; a call that
\* supplies qstep together with reversible=True is an error and does not run
\* the encoder; a reversible value that is not a boolean fails with the
\* invalid-parameter error.
C13_QstepExclusive ==
    call.op = "HTJ2KBase.compress"
    => /\ HasOption(call.args, "-qstep") => HasArg(call.args, "-reversible", "false")
       /\ ("qstep" \in call.kwargs /\ call.reversible = "TRUE")
            => call.outcome = "ValueError" /\ ~call.invoked
       /\ call.reversible \notin {"", "TRUE", "FALSE"}
            => /\ call.outcome = "ValueError"
               /\ call.message = "Invalid value!"
               /\ ~call.invoked

\* C13 as amended: in every HTJ2KBase.compress call the encoder's argument
\* list holds "-qstep" only together with "-reversible false"; a call that
\* supplies qstep together with a reversible equal to True is no error: the
\* step is left out, the list holds "-reversible true" and the encoder is
\* run; the integers 1 and 0 are taken as True and False; any other
\* reversible value fails with the invalid-parameter error before the
\* encoder is run.
C13_QstepDropped ==
    call.op = "HTJ2KBase.compress"
    => /\ HasOption(call.args, "-qstep") => HasArg(call.args, "-reversible", "false")
       /\ ("qstep" \in call.kwargs /\ call.reversible \in {"TRUE", "1"})
            => /\ call.invoked
               /\ call.message # "Invalid value!"
               /\ HasArg(call.args, "-reversible", "true")
               /\ ~HasOption(call.args, "-qstep")
       /\ call.reversible \in {"FALSE", "0"}
            => /\ call.invoked
               /\ HasArg(call.args, "-reversible", "false")
               /\ HasArg(call.args, "-qstep",
                         IF "qstep" \in call.kwargs THEN "0.01" ELSE "0.0039")
       /\ call.reversible \notin {"", "TRUE", "FALSE", "1", "0"}
            => /\ call.outcome = "ValueError"
               /\ call.message = "Invalid value!"
               /\ ~call.invoked
               /\ call.args = <<>>

\* C13 witness: a call that supplied qstep together with reversible=True ran
\* the encoder and returned
C13_Witness ==
    /\ call.op = "HTJ2KBase.compress"
    /\ "qstep" \in call.kwargs
    /\ call.reversible = "TRUE"
    /\ call.invoked
    /\ call.outcome = "ok"

\* C14: when decompress runs the decoder, the temporary codestream file the
\* decoder is given holds on disk every byte that was written to it, whatever
\* the length of the fragment; nothing is still in the write buffer.
C14_WrittenBeforeDecode ==
    (call.op = "decompress" /\ call.decInvoked)
    => call.decInput = call.written

\* C15: after any call of HTJ2KBase.compress or HTJ2KBase.decompress, whether
\* it returned, raised because the codec failed or raised because the tool
\* could not be started, the working directory is the one the call started
\* in, and it is never left at the module directory.
C15_CwdRestored ==
    call.op \in {"HTJ2KBase.compress", "HTJ2KBase.decompress"}
    => cwd = call.cwd0 /\ cwd # ModuleDir

====
